---- MODULE Spec2Model ----
(***************************************************************************)
(* TI packed-BCD floats (tifloats): the Mantissa engine (src/src/mantissa.rs) *)
(* and the Float built on it (src/src/float.rs).                           *)
(*                                                                         *)
(* A u64 is a sequence of 16 four-bit fields, least significant first      *)
(* (w[1] is bits 0..3, w[16] is bits 60..63), so that every shift, mask    *)
(* and carry of the bit-parallel BCD code is computed as the code computes *)
(* it.  A u128/u64 decimal quantity (to_dec, the products and quotients)   *)
(* is a sequence of base-10 digits, least significant first.               *)
(***************************************************************************)
EXTENDS Integers, Sequences, FiniteSets, TLC

VARIABLES overflow_checks, op, self, rhs, input, result

vars == <<overflow_checks, op, self, rhs, input, result>>

----------------------------------------------------------------------------
(* 64-bit words *)

NibbleCount == 16

Nibbles == 1..NibbleCount

\* The same sequence, held as a tuple of its values rather than as a rule
\* that recomputes a value each time it is read.
Tuple(f) == f \o <<>>

Reverse(s) == Tuple([i \in 1..Len(s) |-> s[Len(s) + 1 - i]])

\* A word written as in the source: most significant hex digit first.
Word(be) == Reverse(be)

Bit(n, k) == (n \div (2 ^ k)) % 2

NibXor == [p \in 0..15 |-> [q \in 0..15 |->
             ((Bit(p, 0) + Bit(q, 0)) % 2)
           + 2 * ((Bit(p, 1) + Bit(q, 1)) % 2)
           + 4 * ((Bit(p, 2) + Bit(q, 2)) % 2)
           + 8 * ((Bit(p, 3) + Bit(q, 3)) % 2)]]

NibAnd == [p \in 0..15 |-> [q \in 0..15 |->
             (Bit(p, 0) * Bit(q, 0))
           + 2 * (Bit(p, 1) * Bit(q, 1))
           + 4 * (Bit(p, 2) * Bit(q, 2))
           + 8 * (Bit(p, 3) * Bit(q, 3))]]

WXor(x, y) == Tuple([i \in Nibbles |-> NibXor[x[i]][y[i]]])

WAnd(x, y) == Tuple([i \in Nibbles |-> NibAnd[x[i]][y[i]]])

WOr(x, y) == Tuple([i \in Nibbles |-> x[i] + y[i] - NibAnd[x[i]][y[i]]])

WNot(x) == Tuple([i \in Nibbles |-> 15 - x[i]])

WZero == Tuple([i \in Nibbles |-> 0])

WAllOnes == Tuple([i \in Nibbles |-> 15])

\* x >> k for 0 <= k <= 3
WShrBits(x, k) ==
  Tuple([i \in Nibbles |->
     (x[i] \div (2 ^ k))
     + (IF i < NibbleCount THEN (x[i + 1] % (2 ^ k)) * (2 ^ (4 - k)) ELSE 0)])

\* x >> (4 * n)
WShrNibbles(x, n) ==
  Tuple([i \in Nibbles |-> IF i + n <= NibbleCount THEN x[i + n] ELSE 0])

\* x << (4 * n), bits shifted past bit 63 are dropped
WShlNibbles(x, n) ==
  Tuple([i \in Nibbles |-> IF i - n >= 1 THEN x[i - n] ELSE 0])

\* Carry out of field i of x + y: some field j <= i generates a carry and
\* every field between j and i passes it on.
CarryOut(x, y, i) ==
  \E j \in 1..i : x[j] + y[j] >= 16 /\ \A k \in (j + 1)..i : x[k] + y[k] = 15

\* x + y on u64: the wrapped sum and whether it overflowed
WAdd(x, y) ==
  [w |-> Tuple([i \in Nibbles |->
            (x[i] + y[i] + (IF CarryOut(x, y, i - 1) THEN 1 ELSE 0)) % 16]),
   overflow |-> CarryOut(x, y, NibbleCount)]

\* Borrow out of field i of x - y
BorrowOut(x, y, i) ==
  \E j \in 1..i : x[j] < y[j] /\ \A k \in (j + 1)..i : x[k] = y[k]

\* x - y on u64: the wrapped difference and whether it overflowed
WSub(x, y) ==
  [w |-> Tuple([i \in Nibbles |->
            (x[i] - y[i] - (IF BorrowOut(x, y, i - 1) THEN 1 ELSE 0) + 16) % 16]),
   overflow |-> BorrowOut(x, y, NibbleCount)]

\* x > y on u64
WGt(x, y) == BorrowOut(y, x, NibbleCount)

----------------------------------------------------------------------------
(* Decimal quantities (the u64 of to_dec, the u128 of mul and div):        *)
(* sequences of base-10 digits, least significant first, no leading zeros. *)

DecDigit(d, i) == IF i <= Len(d) THEN d[i] ELSE 0

RECURSIVE DecTrim(_)
DecTrim(d) ==
  IF Len(d) > 0 /\ d[Len(d)] = 0 THEN DecTrim(SubSeq(d, 1, Len(d) - 1)) ELSE d

Max(m, n) == IF m >= n THEN m ELSE n

\* Carry propagation: cells may hold any natural, the result holds digits.
RECURSIVE DecCarry(_, _, _, _)
DecCarry(cells, i, carry, acc) ==
  IF i > Len(cells)
    THEN IF carry = 0 THEN DecTrim(acc)
         ELSE DecCarry(cells, i, carry \div 10, Append(acc, carry % 10))
    ELSE LET s == cells[i] + carry
         IN  DecCarry(cells, i + 1, s \div 10, Append(acc, s % 10))

DecNorm(cells) == DecCarry(cells, 1, 0, <<>>)

DecAdd(x, y) ==
  DecNorm(Tuple([i \in 1..Max(Len(x), Len(y)) |-> DecDigit(x, i) + DecDigit(y, i)]))

RECURSIVE DecSubFrom(_, _, _, _, _)
DecSubFrom(x, y, i, borrow, acc) ==
  IF i > Len(x)
    THEN DecTrim(acc)
    ELSE LET d == x[i] - DecDigit(y, i) - borrow
         IN  DecSubFrom(x, y, i + 1, IF d < 0 THEN 1 ELSE 0,
                        Append(acc, IF d < 0 THEN d + 10 ELSE d))

\* x - y for x >= y
DecSub(x, y) == DecSubFrom(x, y, 1, 0, <<>>)

RECURSIVE DecGtFrom(_, _, _)
DecGtFrom(x, y, i) ==
  IF i < 1 THEN FALSE
  ELSE IF x[i] # y[i] THEN x[i] > y[i]
  ELSE DecGtFrom(x, y, i - 1)

\* x > y, both without leading zeros
DecGt(x, y) ==
  IF Len(x) # Len(y) THEN Len(x) > Len(y) ELSE DecGtFrom(x, y, Len(x))

DecGe(x, y) == ~DecGt(y, x)

RECURSIVE ConvSum(_, _, _, _)
ConvSum(x, y, k, i) ==
  IF i > Len(x) \/ i > k THEN 0
  ELSE (IF k + 1 - i <= Len(y) THEN x[i] * y[k + 1 - i] ELSE 0)
       + ConvSum(x, y, k, i + 1)

\* x * y
DecMul(x, y) ==
  IF Len(x) = 0 \/ Len(y) = 0 THEN <<>>
  ELSE DecNorm(Tuple([k \in 1..(Len(x) + Len(y) - 1) |-> ConvSum(x, y, k, 1)]))

\* x * 10^n
DecShl(x, n) == IF Len(x) = 0 THEN <<>> ELSE [i \in 1..n |-> 0] \o x

\* x / 10^n, truncated
DecShr(x, n) == IF Len(x) <= n THEN <<>> ELSE SubSeq(x, n + 1, Len(x))

RECURSIVE DecHalfFrom(_, _, _, _)
DecHalfFrom(x, i, rem, acc) ==
  IF i < 1 THEN DecTrim(acc)
  ELSE LET v == rem * 10 + x[i]
       IN  DecHalfFrom(x, i - 1, v % 2, <<v \div 2>> \o acc)

\* x >> 1
DecHalf(x) == DecHalfFrom(x, Len(x), 0, <<>>)

RECURSIVE DecTimes(_, _, _)
DecTimes(r, d, q) == IF DecGe(r, d) THEN DecTimes(DecSub(r, d), d, q + 1)
                     ELSE [q |-> q, r |-> r]

\* Long division, most significant digit first.  The tests on t.q and
\* Len(acc) are always true: they make each step's digit and remainder be
\* computed at that step.
RECURSIVE DecDivFrom(_, _, _, _, _)
RECURSIVE DecDivNext(_, _, _, _, _)
DecDivFrom(n, d, i, rem, acc) ==
  IF i < 1 THEN DecTrim(acc)
  ELSE DecDivNext(n, d, i, DecTimes(DecTrim(<<n[i]>> \o rem), d, 0), acc)

DecDivNext(n, d, i, t, acc) ==
  IF t.q <= 9 /\ Len(acc) >= 0
    THEN DecDivFrom(n, d, i - 1, t.r, <<t.q>> \o acc)
    ELSE <<>>

\* n / d, truncated (integer division), for d # 0
DecDiv(n, d) == DecDivFrom(n, d, Len(n), <<>>, <<>>)

\* u64::MAX = 18446744073709551615
U64_MAX == Reverse(<<1,8,4,4,6,7,4,4,0,7,3,7,0,9,5,5,1,6,1,5>>)

----------------------------------------------------------------------------
(* Mantissa, src/src/mantissa.rs.  A Mantissa is its data word.  An        *)
(* operation that can abort yields a record with a panic field: u64        *)
(* arithmetic aborts on overflow when the build checks overflow            *)
(* (overflow_checks, the default of debug builds) and wraps otherwise.     *)
(* Every record is written with its fields in one fixed order, the order   *)
(* in which the field names first occur in this module.                    *)

ONE == Word(<<0,0,1,0,0,0,0,0,0,0,0,0,0,0,0,0>>)

FIVE == Word(<<0,0,5,0,0,0,0,0,0,0,0,0,0,0,0,0>>)

ULP == Word(<<0,0,0,0,0,0,0,0,0,0,0,0,0,0,0,1>>)

MASK == Word(<<0,0,15,15,15,15,15,15,15,15,15,15,15,15,15,15>>)

\* 99999999999999
MAX_10 == Reverse(<<9,9,9,9,9,9,9,9,9,9,9,9,9,9>>)

\* the u64 literal 0x1
WOne == Word(<<0,0,0,0,0,0,0,0,0,0,0,0,0,0,0,1>>)

TC_LANES == Word(<<1,1,1,1,1,1,1,1,1,1,1,1,1,1,1,0>>)

tens_complement(m) ==
  LET t1 == WSub(WAllOnes, m).w
      s2 == WAdd(t1, WOne)
      t2 == s2.w
      t3 == WXor(t1, WOne)
      t4 == WXor(t2, t3)
      t5 == WAnd(WNot(t4), TC_LANES)
      t6 == WOr(WShrBits(t5, 2), WShrBits(t5, 3))
      d  == WSub(t2, t6)
  IN  [data  |-> WAnd(d.w, MASK),
       panic |-> overflow_checks /\ (s2.overflow \/ d.overflow)]

bits(m) == m

is_zero(m) == m = WZero

\* ((data >> 52) & 0xFF) as u8
msd(m) == m[14] + 16 * m[15]

CHECK_LOW == Word(<<0,0,7,7,7,7,7,7,7,7,7,7,7,7,7,7>>)

\* a bias one too small lets the digits 0xA and 0xB through
CHECK_BIAS_Small == Word(<<0,0,2,2,2,2,2,2,2,2,2,2,2,2,2,2>>)

CHECK_BIAS == Word(<<0,0,3,3,3,3,3,3,3,3,3,3,3,3,3,3>>)

CHECK_HIGH == Word(<<0,0,8,8,8,8,8,8,8,8,8,8,8,8,8,8>>)

check(m) ==
  WZero = WOr(WAnd(WAdd(WAnd(WShrBits(m, 1), CHECK_LOW), CHECK_BIAS).w, CHECK_HIGH),
              WAnd(m, WNot(MASK)))

\* Option<Mantissa>
from(b) ==
  IF WZero # WOr(WAnd(WAdd(WAnd(WShrBits(b, 1), CHECK_LOW), CHECK_BIAS).w, CHECK_HIGH),
                 WAnd(b, WNot(MASK)))
    THEN [data |-> WZero, some |-> FALSE]
    ELSE [data |-> b, some |-> TRUE]

from_unchecked(b) == b

\* per byte, byte - 6 * (byte >> 4) = 10 * high + low
to_dec(m) ==
  DecNorm(m)

\* eight rounds of two digits each: the low 16 decimal digits
from_dec(d) == Tuple([i \in Nibbles |-> DecDigit(d, i)])

\* a bias of 5 carries out of a digit only from 11 on
ADD_BIAS_Five == Word(<<0,0,5,5,5,5,5,5,5,5,5,5,5,5,5,5>>)

ADD_BIAS == Word(<<0,0,6,6,6,6,6,6,6,6,6,6,6,6,6,6>>)

ADD_LANES == Word(<<0,1,1,1,1,1,1,1,1,1,1,1,1,1,1,0>>)

overflowing_add(m, r) ==
  IF is_zero(r) THEN [data |-> m, panic |-> FALSE, flag |-> FALSE]
  ELSE
  LET s1 == WAdd(m, ADD_BIAS)
      t1 == s1.w
      s2 == WAdd(t1, r)
      t2 == s2.w
      t3 == WXor(t1, r)
      t4 == WXor(t2, t3)
      t5 == WAnd(WNot(t4), ADD_LANES)
      t6 == WOr(WShrBits(t5, 2), WShrBits(t5, 3))
      d  == WSub(t2, t6)
  IN  [data  |-> WAnd(d.w, MASK),
       panic |-> overflow_checks /\ (s1.overflow \/ s2.overflow \/ d.overflow),
       flag  |-> WAnd(d.w, WNot(MASK)) # WZero]

overflowing_sub(m, r) ==
  IF WGt(m, r)
    THEN LET c == tens_complement(r)
             s == overflowing_add(m, c.data)
         IN  [data |-> s.data, panic |-> c.panic \/ s.panic, flag |-> FALSE]
    ELSE LET c == tens_complement(m)
             s == overflowing_add(r, c.data)
         IN  [data |-> s.data, panic |-> c.panic \/ s.panic, flag |-> TRUE]

\* impl Add for Mantissa
MantissaAdd(m, r) ==
  LET s == overflowing_add(m, r) IN [data |-> s.data, panic |-> s.panic]

\* a shift that drops the digits without rounding
shr_truncating(m, distance) ==
  IF distance >= 15 THEN [data |-> WZero, panic |-> FALSE]
  ELSE [data |-> WShrNibbles(m, distance), panic |-> FALSE]

\* a shift that rounds up from 6 on
shr_round_at_six(m, distance) ==
  IF distance >= 15 THEN [data |-> WZero, panic |-> FALSE]
  ELSE LET res == WShrNibbles(m, distance)
       IN  IF distance # 0 /\ WShrNibbles(m, distance - 1)[1] >= 6
             THEN MantissaAdd(res, ULP)
             ELSE [data |-> res, panic |-> FALSE]

shr(m, distance) ==
  IF distance >= 15 THEN [data |-> WZero, panic |-> FALSE]
  ELSE LET res == WShrNibbles(m, distance)
       IN  IF distance # 0 /\ WShrNibbles(m, distance - 1)[1] >= 5
             THEN MantissaAdd(res, ULP)
             ELSE [data |-> res, panic |-> FALSE]

shl(m, distance) == WAnd(WShlNibbles(m, distance), MASK)

\* the half product or quotient does not fit a u64: try_into().unwrap() aborts
FitsU64(d) == ~DecGt(d, U64_MAX)

overflowing_mul(m, r) ==
  LET full_product == DecMul(to_dec(m), to_dec(r))
      half_product == DecShr(full_product, 13)
  IN  [data  |-> from_dec(half_product),
       panic |-> ~FitsU64(half_product),
       flag  |-> DecGt(half_product, MAX_10)]

\* the divisor is zero: integer division aborts in every build
overflowing_div(m, r) ==
  LET dividend == DecShl(to_dec(m), 14)
      divisor  == to_dec(r)
  IN  IF divisor = <<>>
        THEN [data |-> WZero, panic |-> TRUE, flag |-> FALSE]
        ELSE LET quotient == DecDiv(DecAdd(dividend, DecHalf(divisor)), divisor)
             IN  [data  |-> from_dec(quotient),
                  panic |-> ~FitsU64(quotient),
                  flag  |-> DecGt(quotient, MAX_10)]

\* most significant digit first
digits(m) == Tuple([i \in 1..14 |-> m[15 - i]])

----------------------------------------------------------------------------
(* Float, src/src/float.rs.  A Float is [flags, exponent, mantissa]: the   *)
(* status byte, the biased exponent byte and the mantissa word.            *)

UNDEFINED == 2

COMPLEX_HALF == 12

IDK == 64

NEGATIVE == 128

\* Flags::all().bits()
ALL_FLAGS == 206

EXPONENT_NORM == 128

EXPONENT_MAX == EXPONENT_NORM + 99

EXPONENT_MIN == EXPONENT_NORM - 99

ByteXor(x, y) ==
  NibXor[x % 16][y % 16] + 16 * NibXor[x \div 16][y \div 16]

ByteAnd(x, y) ==
  NibAnd[x % 16][y % 16] + 16 * NibAnd[x \div 16][y \div 16]

\* u8 arithmetic: the wrapped value and whether it overflowed
U8Add(x, y) == [overflow |-> x + y > 255, v |-> (x + y) % 256]

U8Sub(x, y) == [overflow |-> x < y, v |-> (x - y + 256) % 256]

Float(f, e, m) == [flags |-> f, exponent |-> e, mantissa |-> m]

\* Result<Float, FloatError>, or how the call ended instead of returning:
\* "Panic" (the process aborts) or "Hang" (the call never returns).
Ok(f) == [flags |-> f.flags, exponent |-> f.exponent,
          mantissa |-> f.mantissa, kind |-> "Ok"]

Err(kind) == [flags |-> 0, exponent |-> 0, mantissa |-> WZero, kind |-> kind]

is_negative(f) == ByteAnd(f.flags, NEGATIVE) = NEGATIVE

\* a..b excludes b, a..=b includes it
InRange(lo, hi, x) == lo <= x /\ x < hi

InRangeInclusive(lo, hi, x) == lo <= x /\ x <= hi

\* the u128 key, as 32 four-bit fields, least significant first
measure(f) ==
  Tuple([i \in 1..32 |->
     IF i = 32 THEN (IF is_negative(f) THEN 0 ELSE 8)
     ELSE IF i = 15 THEN f.mantissa[15] + (f.exponent % 16)
                         - NibAnd[f.mantissa[15]][f.exponent % 16]
     ELSE IF i = 16 THEN f.mantissa[16] + (f.exponent \div 16)
                         - NibAnd[f.mantissa[16]][f.exponent \div 16]
     ELSE IF i <= 14 THEN f.mantissa[i]
     ELSE 0])

\* u128 comparison: decided by the most significant field that differs
KeyLt(x, y) ==
  \E j \in 1..32 : x[j] < y[j] /\ \A k \in (j + 1)..32 : x[k] = y[k]

partial_cmp(f, g) ==
  IF KeyLt(measure(f), measure(g)) THEN "Less"
  ELSE IF KeyLt(measure(g), measure(f)) THEN "Greater"
  ELSE "Equal"

\* Ord::cmp through partial_cmp of the keys
cmp(f, g) == partial_cmp(f, g)

check_float(f) ==
  IF InRangeInclusive(EXPONENT_MIN, EXPONENT_MAX, f.exponent)
    THEN Ok(f) ELSE Err("Overflow")

\* exponent is an i8 in -128..127; (exponent as u8).wrapping_add(NORM)
new_unchecked(negative, exponent, mantissa) ==
  LET m == from(mantissa)
  IN  IF ~m.some THEN Err("Panic")
      ELSE Ok(Float(IF negative THEN NEGATIVE ELSE 0,
                    (((exponent + 256) % 256) + EXPONENT_NORM) % 256,
                    m.data))

new(negative, exponent, mantissa) ==
  LET f == new_unchecked(negative, exponent, mantissa)
  IN  IF f.kind # "Ok" THEN f ELSE check_float(f)

neg(f) == Float(ByteXor(f.flags, NEGATIVE), f.exponent, f.mantissa)

mark_complex_half(f) ==
  Float(ByteAnd(f.flags, COMPLEX_HALF), f.exponent, f.mantissa)

\* while mantissa.msd() == 0 { exponent -= 1; mantissa = mantissa.shl(1) }
\* A mantissa that shl(1) leaves unchanged (zero) keeps msd() = 0 in every
\* later round: the loop has no exit.  The exponent then reaches 0 and the
\* decrement aborts when overflow is checked, and wraps for ever otherwise.
RECURSIVE renormalize(_, _)
renormalize(exponent, mantissa) ==
  IF msd(mantissa) # 0
    THEN [exponent |-> exponent, mantissa |-> mantissa, kind |-> "Exit"]
  ELSE IF shl(mantissa, 1) = mantissa
    THEN [exponent |-> exponent, mantissa |-> mantissa,
          kind |-> IF overflow_checks THEN "Panic" ELSE "Hang"]
  ELSE IF U8Sub(exponent, 1).overflow /\ overflow_checks
    THEN [exponent |-> exponent, mantissa |-> mantissa, kind |-> "Panic"]
  ELSE renormalize(U8Sub(exponent, 1).v, shl(mantissa, 1))

add(x, y) ==
  LET a == IF x.exponent < y.exponent THEN y ELSE x
      b == IF x.exponent < y.exponent THEN x ELSE y
      b_mantissa == shr(b.mantissa, a.exponent - b.exponent)
  IN  IF is_negative(a) = is_negative(b)
        THEN \* add mantissas
          LET s == overflowing_add(a.mantissa, b_mantissa.data)
              e == IF s.flag THEN U8Add(a.exponent, 1)
                   ELSE [overflow |-> FALSE, v |-> a.exponent]
              h == shr(s.data, 1)
              m == IF s.flag THEN MantissaAdd(h.data, ONE)
                   ELSE [data |-> s.data, panic |-> FALSE]
          IN  IF b_mantissa.panic \/ s.panic \/ (e.overflow /\ overflow_checks)
                 \/ (s.flag /\ h.panic) \/ m.panic
                THEN Err("Panic")
              ELSE IF e.v > EXPONENT_MAX THEN Err("Overflow")
              ELSE Ok(Float(a.flags, e.v, m.data))
        ELSE \* subtract mantissas
          LET d == overflowing_sub(a.mantissa, b_mantissa.data)
              flags == IF d.flag THEN ByteXor(a.flags, NEGATIVE) ELSE a.flags
              n == renormalize(a.exponent, d.data)
          IN  IF b_mantissa.panic \/ d.panic THEN Err("Panic")
              ELSE IF n.kind # "Exit" THEN Err(n.kind)
              ELSE IF n.exponent < EXPONENT_MIN THEN Err("Overflow")
              ELSE Ok(Float(flags, n.exponent, n.mantissa))

sub(x, y) == add(x, neg(y))

mul(x, y) ==
  LET e1 == U8Add(x.exponent, y.exponent)
      e2 == U8Sub(e1.v, EXPONENT_NORM)
      p  == overflowing_mul(x.mantissa, y.mantissa)
      e3 == IF p.flag THEN U8Add(e2.v, 1) ELSE [overflow |-> FALSE, v |-> e2.v]
      m  == IF p.flag THEN shr(p.data, 1) ELSE [data |-> p.data, panic |-> FALSE]
  IN  IF (overflow_checks /\ (e1.overflow \/ e2.overflow \/ e3.overflow))
         \/ p.panic \/ m.panic
        THEN Err("Panic")
      ELSE IF ~InRange(EXPONENT_MIN, EXPONENT_MAX, e3.v) THEN Err("Overflow")
      ELSE Ok(Float(ByteXor(x.flags, ByteAnd(y.flags, NEGATIVE)), e3.v, m.data))

\* a quotient signed as the product is, by the exclusive or of the signs
div_sign_xor(x, y) ==
  LET e1 == U8Sub(x.exponent, y.exponent)
      e2 == U8Add(e1.v, EXPONENT_NORM)
      q  == overflowing_div(x.mantissa, y.mantissa)
      m  == IF q.flag THEN shr(q.data, 1) ELSE [data |-> q.data, panic |-> FALSE]
  IN  IF (overflow_checks /\ (e1.overflow \/ e2.overflow)) \/ q.panic \/ m.panic
        THEN Err("Panic")
      ELSE IF ~InRange(EXPONENT_MIN, EXPONENT_MAX, e2.v) THEN Err("Overflow")
      ELSE Ok(Float(ByteXor(x.flags, ByteAnd(y.flags, NEGATIVE)), e2.v, m.data))

div(x, y) ==
  LET e1 == U8Sub(x.exponent, y.exponent)
      e2 == U8Add(e1.v, EXPONENT_NORM)
      q  == overflowing_div(x.mantissa, y.mantissa)
      m  == IF q.flag THEN shr(q.data, 1) ELSE [data |-> q.data, panic |-> FALSE]
  IN  IF (overflow_checks /\ (e1.overflow \/ e2.overflow)) \/ q.panic \/ m.panic
        THEN Err("Panic")
      ELSE IF ~InRange(EXPONENT_MIN, EXPONENT_MAX, e2.v) THEN Err("Overflow")
      ELSE Ok(Float(x.flags, e2.v, m.data))

\* (1 << (4 * (13 - index))) * value, for a u8 value
DigitWord(index, value) ==
  WShlNibbles(Tuple([i \in Nibbles |-> IF i = 1 THEN value % 16
                                       ELSE IF i = 2 THEN value \div 16 ELSE 0]),
              13 - index)

\* the sum over the first 14 digits, index counted from 0
RECURSIVE DigitSum(_, _)
DigitSum(ds, n) ==
  IF n = 0 THEN WZero
  ELSE WAdd(DigitSum(ds, n - 1), DigitWord(n - 1, ds[n])).w

\* u64, or "Panic" when the unwrap of Mantissa::from aborts
mantissa_from(ds) ==
  LET dec == DigitSum(ds, IF Len(ds) < 14 THEN Len(ds) ELSE 14)
  IN  IF Len(ds) >= 15 /\ ds[15] >= 5
        THEN LET m == from(dec)
                 r == MantissaAdd(m.data, ULP)
             IN  IF ~m.some \/ r.panic THEN [data |-> WZero, kind |-> "Panic"]
                 ELSE [data |-> bits(r.data), kind |-> "Ok"]
        ELSE [data |-> dec, kind |-> "Ok"]

\* u64::to_be_bytes, bytes numbered from 0 (most significant)
to_be_bytes(w) == [k \in 0..7 |-> 16 * w[16 - 2 * k] + w[15 - 2 * k]]

\* u64::from_be_bytes of a sequence of 8 bytes
from_be_bytes(arr) ==
  Tuple([i \in Nibbles |->
     IF i % 2 = 0 THEN arr[(16 - i) \div 2 + 1] \div 16
     ELSE arr[(15 - i) \div 2 + 1] % 16])

\* [u8; 9], flags first
to_raw_bytes(f) ==
  <<f.flags, f.exponent>> \o Tuple([k \in 1..7 |-> to_be_bytes(bits(f.mantissa))[k]])

\* Flags::from_bits
from_bits(byte) == ByteAnd(byte, 255 - ALL_FLAGS) = 0

\* Result<Float, ParseFloatError>
from_raw_bytes(bytes) ==
  IF ~from_bits(bytes[1]) THEN Err("InvalidFlags")
  ELSE IF ~InRange(EXPONENT_MIN, EXPONENT_MAX, bytes[2])
    THEN Err("InvalidExponent")
  ELSE LET arr == SubSeq(bytes, 2, 9)
           m   == from(WAnd(from_be_bytes(arr), MASK))
       IN  IF ~m.some THEN Err("InvalidMantissa")
           ELSE Ok(Float(bytes[1], bytes[2], m.data))

----------------------------------------------------------------------------
(* The calls.  The library holds no state between calls: a state is one    *)
(* call, its operands and how it ended.  overflow_checks is fixed by the   *)
(* build.  The operands are drawn from samples of the valid values.        *)

MantissaCount == 4

ExponentCount == 3

FlagCount == 3

MaxDigits == 16

MaxShift == 16

NINES == Word(<<0,0,9,9,9,9,9,9,9,9,9,9,9,9,9,9>>)

PI == Word(<<0,0,3,1,4,1,5,9,2,6,5,3,5,8,9,8>>)

E == Word(<<0,0,2,7,1,8,2,8,1,8,2,8,4,5,9,0>>)

MantissaPool == <<WZero, ONE, FIVE, NINES, ULP, PI, E>>

ExponentPool == <<EXPONENT_NORM, EXPONENT_NORM + 1, EXPONENT_MAX, EXPONENT_MIN,
                  EXPONENT_NORM - 13, EXPONENT_MAX - 1, EXPONENT_MIN + 1>>

FlagPool == <<0, NEGATIVE, IDK, NEGATIVE + COMPLEX_HALF, UNDEFINED>>

Mantissas == {MantissaPool[i] : i \in 1..MantissaCount}

Exponents == {ExponentPool[i] : i \in 1..ExponentCount}

FlagBytes == {FlagPool[i] : i \in 1..FlagCount}

\* valid Floats: recognized flags, exponent in range, every digit <= 9
Floats == {Float(f, e, m) : f \in FlagBytes, e \in Exponents, m \in Mantissas}

NoFloat == Float(0, 0, WZero)

NoResult == Err("None")

Idle == op = "idle"

TypeOK == overflow_checks \in BOOLEAN

Init ==
  /\ overflow_checks \in BOOLEAN
  /\ op = "idle"
  /\ self = NoFloat
  /\ rhs = NoFloat
  /\ input = <<>>
  /\ result = NoResult

Binary(name, x, y, r) ==
  /\ Idle
  /\ op' = name
  /\ self' = x
  /\ rhs' = y
  /\ result' = r
  /\ UNCHANGED <<overflow_checks, input>>

Add == \E x \in Floats, y \in Floats : Binary("add", x, y, add(x, y))

Sub == \E x \in Floats, y \in Floats : Binary("sub", x, y, sub(x, y))

\* either of the two: a - b is a + (-b)
AddSub ==
  \E x \in Floats, y \in Floats, name \in {"add", "sub"} :
    Binary(name, x, y, add(x, IF name = "sub" THEN neg(y) ELSE y))

Mul == \E x \in Floats, y \in Floats : Binary("mul", x, y, mul(x, y))

Div == \E x \in Floats, y \in Floats : Binary("div", x, y, div(x, y))

\* the operands of a comparison also take an exponent below the bias
OrdExponents == Exponents \cup {EXPONENT_NORM - 3}

OrdFloats == {Float(f, e, m) : f \in FlagBytes, e \in OrdExponents, m \in Mantissas}

Cmp == \E x \in OrdFloats, y \in OrdFloats :
         Binary("cmp", x, y, [kind |-> cmp(x, y)])

Neg == \E x \in Floats : Binary("neg", x, NoFloat, Ok(neg(x)))

\* encode, then decode what was encoded
RawBytes ==
  \E x \in Floats :
    /\ Idle
    /\ op' = "raw_bytes"
    /\ self' = x
    /\ input' = to_raw_bytes(x)
    /\ result' = from_raw_bytes(to_raw_bytes(x))
    /\ UNCHANGED <<overflow_checks, rhs>>

\* decode nine bytes: an encoded Float with one byte overwritten
PatchByte(bytes, p, v) == Tuple([i \in 1..9 |-> IF i = p THEN v ELSE bytes[i]])

SampleBytes == {0, 1, 9, 10, 28, 29, 153, 154, 226, 227, 228, 255}

Decode ==
  \E x \in Floats, p \in 1..3, v \in SampleBytes :
    /\ Idle
    /\ op' = "from_raw_bytes"
    /\ input' = PatchByte(to_raw_bytes(x), p, v)
    /\ result' = from_raw_bytes(PatchByte(to_raw_bytes(x), p, v))
    /\ UNCHANGED <<overflow_checks, self, rhs>>

\* a 64-bit word: a sample mantissa with one field overwritten
Patch(w, p, v) == Tuple([i \in Nibbles |-> IF i = p THEN v ELSE w[i]])

From ==
  \E w \in Mantissas, p \in Nibbles, v \in 0..15 :
    /\ Idle
    /\ op' = "from"
    /\ input' = Patch(w, p, v)
    /\ result' = from(Patch(w, p, v))
    /\ UNCHANGED <<overflow_checks, self, rhs>>

\* digit sequences: a fill digit, with the 14th and the 15th digit varied
DigitSeq(len, fill, d14, d15) ==
  Tuple([i \in 1..len |-> IF i = 14 THEN d14 ELSE IF i = 15 THEN d15 ELSE fill])

MantissaFrom ==
  \E len \in 0..MaxDigits, fill \in {0, 1, 9}, d14 \in {0, 4, 9}, d15 \in 0..9 :
    /\ Idle
    /\ op' = "mantissa_from"
    /\ input' = DigitSeq(len, fill, d14, d15)
    /\ result' = mantissa_from(DigitSeq(len, fill, d14, d15))
    /\ UNCHANGED <<overflow_checks, self, rhs>>

\* valid mantissas: a sample with one digit overwritten by a digit
PackedPlaces == {1, 2, 7, 13, 14}

PackedDigits == {0, 4, 5, 9}

Packed == {Patch(w, p, v) : w \in Mantissas, p \in PackedPlaces, v \in PackedDigits}

OverflowingAdd ==
  \E a \in Packed, b \in Packed :
    /\ Idle
    /\ op' = "overflowing_add"
    /\ input' = <<a, b>>
    /\ result' = overflowing_add(a, b)
    /\ UNCHANGED <<overflow_checks, self, rhs>>

OverflowingSub ==
  \E a \in Packed, b \in Packed :
    /\ Idle
    /\ op' = "overflowing_sub"
    /\ input' = <<a, b>>
    /\ result' = overflowing_sub(a, b)
    /\ UNCHANGED <<overflow_checks, self, rhs>>

\* distance is a u8
Shr ==
  \E m \in Packed, distance \in 0..MaxShift \cup {255} :
    /\ Idle
    /\ op' = "shr"
    /\ input' = <<m, distance>>
    /\ result' = shr(m, distance)
    /\ UNCHANGED <<overflow_checks, self, rhs>>

\* the setter works in place: result is the Float after the call
MarkComplexHalf ==
  \E x \in Floats :
    Binary("mark_complex_half", x, NoFloat, Ok(mark_complex_half(x)))

\* the call has ended; the next one starts from nothing
Return ==
  /\ ~Idle
  /\ op' = "idle"
  /\ self' = NoFloat
  /\ rhs' = NoFloat
  /\ input' = <<>>
  /\ result' = NoResult
  /\ UNCHANGED overflow_checks

Next == Add \/ Sub \/ Mul \/ Div \/ Cmp \/ Neg \/ RawBytes \/ Decode \/ From
        \/ MantissaFrom \/ MarkComplexHalf \/ OverflowingAdd \/ OverflowingSub
        \/ Shr \/ Return

Spec == Init /\ [][Next]_vars

NextAdd == Add \/ Return

SpecAdd == Init /\ [][NextAdd]_vars

NextArith == Add \/ Mul \/ Return

SpecArith == Init /\ [][NextArith]_vars

NextMul == Mul \/ Return

SpecMul == Init /\ [][NextMul]_vars

NextDiv == Div \/ Return

SpecDiv == Init /\ [][NextDiv]_vars

NextOrd == Cmp \/ Return

SpecOrd == Init /\ [][NextOrd]_vars

NextCodec == RawBytes \/ Decode \/ Return

SpecCodec == Init /\ [][NextCodec]_vars

NextMantissa == From \/ MantissaFrom \/ Return

SpecMantissa == Init /\ [][NextMantissa]_vars

NextFlags == Neg \/ MarkComplexHalf \/ Return

SpecFlags == Init /\ [][NextFlags]_vars

NextFour == AddSub \/ Mul \/ Div \/ Return

SpecFour == Init /\ [][NextFour]_vars

NextPackedAdd == OverflowingAdd \/ Return

SpecPackedAdd == Init /\ [][NextPackedAdd]_vars

NextPackedSub == OverflowingSub \/ Return

SpecPackedSub == Init /\ [][NextPackedSub]_vars

NextShr == Shr \/ Return

SpecShr == Init /\ [][NextShr]_vars

----------------------------------------------------------------------------
(* Properties *)

TEN_14 == Reverse(<<1,0,0,0,0,0,0,0,0,0,0,0,0,0,0>>)

Unbiased(e) == e - EXPONENT_NORM

\* every digit field <= 9 and the top byte zero, field by field
ValidDigits(w) == (\A i \in 1..14 : w[i] <= 9) /\ w[15] = 0 /\ w[16] = 0

\* C1: decoding the encoding of a valid Float gives Ok of the same Float.
C1_RoundTrip == op = "raw_bytes" => result = Ok(self)

\* C2: a + (-a) returns Ok with a zero mantissa (it terminates, it does not
\* abort, the renormalization loop does not run on a zero difference).
C2_AdditiveInverse ==
  (op = "add" /\ rhs = neg(self)) =>
    (result.kind = "Ok" /\ result.mantissa = WZero)

SameOutcome(r1, r2) ==
  \/ r1.kind = "Overflow" /\ r2.kind = "Overflow"
  \/ r1.kind = "Ok" /\ r2.kind = "Ok" /\ r1 = r2

\* C3: a + b and b + a end the same way, and so do a * b and b * a: both
\* Err(Overflow), or both Ok with equal Floats.
C3_Commutative ==
  /\ op = "add" => SameOutcome(result, add(rhs, self))
  /\ op = "mul" => SameOutcome(result, mul(rhs, self))

\* C4: Mantissa::from(bits) is Some(bits), and check is true, exactly when
\* each of the 14 digit fields is <= 9 and the top byte is zero.
C4_DigitValidity ==
  op = "from" =>
    /\ result.some <=> ValidDigits(input)
    /\ check(input) <=> ValidDigits(input)
    /\ result.some => result.data = input

C4_Witness ==
  /\ op = "from"
  /\ ~result.some
  /\ input[15] = 0 /\ input[16] = 0
  /\ \E i \in 1..14 : input[i] = 10

\* C5: dividing by a Float whose mantissa is zero returns Err(DivideByZero).
C5_DivideByZero ==
  (op = "div" /\ rhs.mantissa = WZero) => result.kind = "DivideByZero"

\* C6: a * b is Err(Overflow) exactly when the true exponent e (the sum of
\* the unbiased exponents, plus 1 on needs_shift) is outside -99..99, and
\* is Ok with biased exponent bias + e otherwise.
C6_MulRange ==
  op = "mul" =>
    LET e == Unbiased(self.exponent) + Unbiased(rhs.exponent)
             + (IF overflowing_mul(self.mantissa, rhs.mantissa).flag
                  THEN 1 ELSE 0)
    IN  IF e >= -99 /\ e <= 99
          THEN result.kind = "Ok" /\ result.exponent = EXPONENT_NORM + e
          ELSE result.kind = "Overflow"

Normalized(f) == f.mantissa[14] # 0

\* C7: of two negative normalized Floats, the one of larger magnitude (the
\* more negative one) compares Less.
C7_NegativeOrder ==
  (/\ op = "cmp"
   /\ is_negative(self) /\ is_negative(rhs)
   /\ Normalized(self) /\ Normalized(rhs)
   /\ \/ self.exponent > rhs.exponent
      \/ self.exponent = rhs.exponent /\ WGt(self.mantissa, rhs.mantissa))
  => result.kind = "Less"

\* the value of the first 14 digits, left-aligned and zero-padded
First14(ds) ==
  DecTrim(Tuple([i \in 1..14 |-> IF 15 - i <= Len(ds) THEN ds[15 - i] ELSE 0]))

RoundsUp(ds) == Len(ds) >= 15 /\ ds[15] >= 5

\* C8: mantissa_from returns the packed first 14 digits, plus one unit in
\* the last place when a 15th digit exists and is >= 5, always a valid
\* 14-digit mantissa.
C8_LiteralRounding ==
  op = "mantissa_from" =>
    /\ result.kind = "Ok"
    /\ ValidDigits(result.data)
    /\ to_dec(result.data) =
         (IF RoundsUp(input) THEN DecAdd(First14(input), <<1>>)
          ELSE First14(input))

\* C9: an Ok quotient carries the dividend's status byte, sign included.
C9_DivSign ==
  (op = "div" /\ result.kind = "Ok") => result.flags = self.flags

C9_Witness ==
  /\ op = "div"
  /\ result.kind = "Ok"
  /\ ~is_negative(self) /\ is_negative(rhs)
  /\ ~is_negative([flags |-> result.flags])

\* C10: same-sign addition.  With a the operand of larger-or-equal exponent
\* and s = dec(a.mantissa) + dec(shr(b.mantissa, a.exponent - b.exponent)):
\* s < 10^14 gives Ok(a's sign, a.exponent, s); otherwise the exponent is
\* a.exponent + 1 and the mantissa s / 10 rounded half-up, Err(Overflow)
\* exactly when that exponent exceeds bias + 99.
C10_SameSignAdd ==
  (op = "add" /\ is_negative(self) = is_negative(rhs)) =>
    LET a == IF self.exponent < rhs.exponent THEN rhs ELSE self
        b == IF self.exponent < rhs.exponent THEN self ELSE rhs
        s == DecAdd(to_dec(a.mantissa),
                    to_dec(shr(b.mantissa, a.exponent - b.exponent).data))
    IN  IF DecGt(TEN_14, s)
          THEN /\ result.kind = "Ok"
               /\ is_negative([flags |-> result.flags]) = is_negative(a)
               /\ result.exponent = a.exponent
               /\ ValidDigits(result.mantissa)
               /\ to_dec(result.mantissa) = s
          ELSE IF a.exponent + 1 > EXPONENT_NORM + 99
            THEN result.kind = "Overflow"
            ELSE /\ result.kind = "Ok"
                 /\ is_negative([flags |-> result.flags]) = is_negative(a)
                 /\ result.exponent = a.exponent + 1
                 /\ ValidDigits(result.mantissa)
                 /\ result.mantissa[14] # 0
                 /\ to_dec(result.mantissa) = DecShr(DecAdd(s, <<5>>), 1)

\* a carry out of the 14th digit whose dropped digit rounds up
C10_Witness ==
  /\ op = "add"
  /\ is_negative(self) = is_negative(rhs)
  /\ result.kind = "Ok"
  /\ result.exponent = self.exponent + 1
  /\ self.mantissa = NINES /\ rhs.mantissa = NINES

\* C11: after mark_complex_half the complex-half marker (bits 2-3) is set,
\* and the sign bit, the exponent and the mantissa are as before the call.
C11_ComplexHalfSetter ==
  op = "mark_complex_half" =>
    /\ ByteAnd(result.flags, COMPLEX_HALF) = COMPLEX_HALF
    /\ ByteAnd(result.flags, NEGATIVE) = ByteAnd(self.flags, NEGATIVE)
    /\ result.exponent = self.exponent
    /\ result.mantissa = self.mantissa

\* C12: overflowing_add(a, b) of valid mantissas returns a valid mantissa of
\* value (dec(a) + dec(b)) mod 10^14 and the carry flag exactly when
\* dec(a) + dec(b) >= 10^14; for b = 0 it returns (a, false).
C12_PackedAdd ==
  op = "overflowing_add" =>
    LET a == input[1]
        b == input[2]
        s == DecAdd(to_dec(a), to_dec(b))
    IN  /\ ~result.panic
        /\ ValidDigits(result.data)
        /\ result.flag <=> DecGe(s, TEN_14)
        /\ to_dec(result.data) = (IF DecGe(s, TEN_14) THEN DecSub(s, TEN_14) ELSE s)
        /\ is_zero(b) => (result.data = a /\ ~result.flag)

\* a carry out of the 14th digit that leaves a nonzero sum behind
C12_Witness ==
  /\ op = "overflowing_add"
  /\ input[1] = NINES
  /\ result.flag
  /\ result.data # WZero

\* C13: overflowing_sub(a, b) of valid mantissas returns (a - b, false) when
\* dec(a) >= dec(b) and (b - a, true) when dec(a) < dec(b), a valid
\* mantissa in both cases, and no 64-bit operation overflows on the way.
C13_PackedSub ==
  op = "overflowing_sub" =>
    LET a == to_dec(input[1])
        b == to_dec(input[2])
    IN  /\ ~result.panic
        /\ ValidDigits(result.data)
        /\ IF DecGe(a, b)
             THEN ~result.flag /\ to_dec(result.data) = DecSub(a, b)
             ELSE result.flag /\ to_dec(result.data) = DecSub(b, a)

\* C14: shr(m, 0) = m; for 1 <= n <= 14, shr(m, n) is floor(dec(m) / 10^n),
\* plus 1 exactly when the first discarded digit is >= 5; for n >= 15 it is
\* 0.  The result is a valid mantissa.
C14_ShrRounding ==
  op = "shr" =>
    LET m == input[1]
        n == input[2]
        d == to_dec(m)
    IN  /\ ~result.panic
        /\ ValidDigits(result.data)
        /\ n = 0 => result.data = m
        /\ to_dec(result.data) =
             (IF n = 0 THEN d
              ELSE IF n >= 15 THEN <<>>
              ELSE IF DecDigit(d, n) >= 5 THEN DecAdd(DecShr(d, n), <<1>>)
              ELSE DecShr(d, n))

\* the round-up that carries through fourteen 9s
C14_Witness ==
  /\ op = "shr"
  /\ input = <<NINES, 1>>
  /\ result.data = ONE

\* C15: for normalized nonzero operands, an Ok quotient a / b represents
\* |a| / |b| rounded half-up to 14 significant digits: with the mantissa
\* digits da, db, it has mantissa round(da * 10^13 / db) and exponent
\* ea - eb when da >= db, and mantissa round(da * 10^14 / db) and exponent
\* ea - eb - 1 when da < db.
C15_DivValue ==
  (/\ op = "div"
   /\ Normalized(self) /\ Normalized(rhs)
   /\ result.kind = "Ok")
  => LET da == to_dec(self.mantissa)
         db == to_dec(rhs.mantissa)
         scale == IF DecGe(da, db) THEN 13 ELSE 14
         quotient == DecDiv(DecAdd(DecShl(da, scale), DecHalf(db)), db)
         e == Unbiased(self.exponent) - Unbiased(rhs.exponent)
              - (IF DecGe(da, db) THEN 0 ELSE 1)
     IN  /\ ValidDigits(result.mantissa)
         /\ to_dec(result.mantissa) = quotient
         /\ Unbiased(result.exponent) = e

\* a mantissa that is exactly zero or has a nonzero leading digit
ZeroOrNormalized(m) == m = WZero \/ m[14] # 0

\* C16: for operands with valid mantissas that are zero or normalized and
\* exponents in bias-99..bias+99, every Ok result of add, sub, mul and div
\* (nonzero divisor) has a valid mantissa that is zero or normalized and an
\* exponent in bias-99..bias+99.
C16_NormalizationPreserved ==
  (/\ op \in {"add", "sub", "mul", "div"}
   /\ ZeroOrNormalized(self.mantissa) /\ ZeroOrNormalized(rhs.mantissa)
   /\ op = "div" => rhs.mantissa # WZero
   /\ result.kind = "Ok")
  => /\ ValidDigits(result.mantissa)
     /\ ZeroOrNormalized(result.mantissa)
     /\ InRangeInclusive(EXPONENT_MIN, EXPONENT_MAX, result.exponent)

\* zero is mantissa 0 with the exponent at the normalization point
ZeroOrNormalizedFloat(f) ==
  \/ f.mantissa = WZero /\ f.exponent = EXPONENT_NORM
  \/ f.mantissa[14] # 0

\* the numeric value of x is smaller than that of y, both non-negative
ValueLt(x, y) ==
  IF x.mantissa = WZero THEN y.mantissa # WZero
  ELSE IF y.mantissa = WZero THEN FALSE
  ELSE \/ x.exponent < y.exponent
       \/ x.exponent = y.exponent /\ WGt(y.mantissa, x.mantissa)

\* C17: for non-negative normalized Floats x and y, zero included,
\* cmp(x, y) is Less exactly when the value of x is smaller than that of y.
C17_NonNegativeOrder ==
  (/\ op = "cmp"
   /\ ~is_negative(self) /\ ~is_negative(rhs)
   /\ ZeroOrNormalizedFloat(self) /\ ZeroOrNormalizedFloat(rhs))
  => (result.kind = "Less" <=> ValueLt(self, rhs))

====
